---- MODULE Spec2Model ----
(***************************************************************************)
(* A model of the watchlist.db refresh pipeline: the Letterboxd scraper    *)
(* (scraper.py), the TMDB enricher (tmdb.py), the SQLite store             *)
(* (database.py), the refresh orchestrator (scheduler.py) and the manual   *)
(* trigger (main.py).                                                      *)
(*                                                                         *)
(* The program runs on one asyncio event loop.  A step of the model is one *)
(* segment of a coroutine between two suspension points (an await that     *)
(* really waits: a network request, a database call, a sleep), or one      *)
(* event of the environment (a cron tick, an HTTP request, a response).    *)
(*                                                                         *)
(* Text is modelled as a sequence of one-character strings wherever the    *)
(* code inspects it (strip, split, slicing); an absent or empty attribute  *)
(* is the empty sequence, as the code's `x or ""` makes them the same.     *)
(* An Optional value is <<>> for None and <<v>> for a value v.             *)
(***************************************************************************)
EXTENDS Integers, Sequences, FiniteSets, TLC

(***************************************************************************)
(* Bounds of the model.                                                    *)
(***************************************************************************)
NumInvocations == 2   \* run_refresh / POST /refresh invocations in one behaviour
MaxPages == 2         \* the watchlist has at most this many pages
MaxBatch == 3         \* longest reference list handed to a direct enrich_films call

(***************************************************************************)
(* Program constants.                                                      *)
(***************************************************************************)
SemaphorePermits == 10                 \* tmdb.py: _semaphore = asyncio.Semaphore(10)
TMDB_IMAGE_BASE == "https://image.tmdb.org/t/p"
Country == "GB"                        \* config.py: country default

None == <<>>
Some(v) == <<v>>

Range(s) == {s[k] : k \in DOMAIN s}

(***************************************************************************)
(* models.py                                                               *)
(***************************************************************************)
\* StreamingPlatform(provider_id, provider_name, logo_path=None)
StreamingPlatform(provider_id, provider_name, logo_path) ==
    [provider_id |-> provider_id, provider_name |-> provider_name, logo_path |-> logo_path]

\* Film with the defaults of models.Film for every field the caller omits.
Film(slug, title, year, tmdb_id, tmdb_status, poster_url, genres, platforms, watch_link, country, last_checked) ==
    [id |-> None,
     letterboxd_slug |-> slug,
     title |-> title,
     year |-> year,
     tmdb_id |-> tmdb_id,
     tmdb_status |-> tmdb_status,
     poster_url |-> poster_url,
     overview |-> None,
     runtime_minutes |-> None,
     original_language |-> None,
     genres |-> genres,
     streaming_platforms |-> platforms,
     watch_link |-> watch_link,
     country |-> country,
     last_checked |-> last_checked,
     source |-> "letterboxd"]

\* scraper.ScrapedFilm
ScrapedFilm(slug, title) == [slug |-> slug, title |-> title]

(***************************************************************************)
(* Text helpers: str.strip(), str.strip("/"), str.split("/"),              *)
(* str.isdigit(), int().                                                   *)
(***************************************************************************)
RECURSIVE LStripCh(_, _)
LStripCh(s, c) == IF s # <<>> /\ Head(s) = c THEN LStripCh(Tail(s), c) ELSE s

RECURSIVE RStripCh(_, _)
RStripCh(s, c) ==
    IF s # <<>> /\ s[Len(s)] = c THEN RStripCh(SubSeq(s, 1, Len(s) - 1), c) ELSE s

StripCh(s, c) == RStripCh(LStripCh(s, c), c)

\* str.strip() with no argument strips whitespace.
Strip(s) == StripCh(s, " ")

\* s.split(sep): the pieces between the separators; "" splits to [""].
RECURSIVE SplitAcc(_, _, _)
SplitAcc(s, sep, cur) ==
    IF s = <<>> THEN <<cur>>
    ELSE IF Head(s) = sep THEN <<cur>> \o SplitAcc(Tail(s), sep, <<>>)
    ELSE SplitAcc(Tail(s), sep, Append(cur, Head(s)))

Split(s, sep) == SplitAcc(s, sep, <<>>)

Digits == <<"0", "1", "2", "3", "4", "5", "6", "7", "8", "9">>

IsDigit(c) == \E d \in DOMAIN Digits : Digits[d] = c

DigitVal(c) == (CHOOSE d \in DOMAIN Digits : Digits[d] = c) - 1

\* str.isdigit(): non-empty and every character a digit.
IsDigitStr(s) == s # <<>> /\ \A k \in DOMAIN s : IsDigit(s[k])

RECURSIVE ToInt(_)
ToInt(s) == IF s = <<>> THEN 0 ELSE 10 * ToInt(SubSeq(s, 1, Len(s) - 1)) + DigitVal(s[Len(s)])

\* s[:n]
Prefix(s, n) == SubSeq(s, 1, IF Len(s) < n THEN Len(s) ELSE n)

(***************************************************************************)
(* scraper.py: _parse_watchlist_page.                                      *)
(*                                                                         *)
(* A page is [entries, has_next]: the elements of the document, in         *)
(* document order, that one of the two selectors could match, and whether  *)
(* the document holds an a.next link.  An entry's kind says which selector *)
(* matches it: "legacy" (li.poster-container div.film-poster), "lazy"      *)
(* (div.react-component[data-component-class='LazyPoster']) or "other".    *)
(***************************************************************************)
Entry(kind, film_slug, item_slug, target_link, item_name, img_alt) ==
    [kind |-> kind, data_film_slug |-> film_slug, data_item_slug |-> item_slug,
     data_target_link |-> target_link, data_item_name |-> item_name, img_alt |-> img_alt]

Page(entries, has_next) == [entries |-> entries, has_next |-> has_next]

\* slug = (poster.get("data-film-slug") or "").strip()
LegacySlug(e) == Strip(e.data_film_slug)

\* title = img["alt"] if img and img.get("alt") else slug
LegacyTitle(e, slug) == IF e.img_alt # <<>> THEN e.img_alt ELSE slug

\* data-item-slug, else data-target-link of the form film/<slug>
LazySlug(e) ==
    LET slug == Strip(e.data_item_slug)
        parts == Split(StripCh(e.data_target_link, "/"), "/")
    IN  IF slug # <<>> THEN slug
        ELSE IF Len(parts) >= 2 /\ parts[1] = <<"f", "i", "l", "m">> THEN Strip(parts[2])
        ELSE <<>>

\* A variant: title = card.get("data-item-name") or slug, the image not consulted
LazyTitleNameOnly(e, slug) == IF e.data_item_name # <<>> THEN e.data_item_name ELSE slug

\* title = img["alt"] if img and img.get("alt") else (card.get("data-item-name") or slug)
LazyTitle(e, slug) ==
    IF e.img_alt # <<>> THEN e.img_alt
    ELSE IF e.data_item_name # <<>> THEN e.data_item_name
    ELSE slug

\* One of the two loops: the entries of `kind`, in document order, appended to
\* `films` unless the slug is empty or already in seen_slugs (the slugs of films).
RECURSIVE ParseLoop(_, _, _)
ParseLoop(entries, kind, films) ==
    IF entries = <<>> THEN films
    ELSE LET e == Head(entries)
             slug == IF kind = "legacy" THEN LegacySlug(e) ELSE LazySlug(e)
             title == IF kind = "legacy" THEN LegacyTitle(e, slug) ELSE LazyTitle(e, slug)
             seen_slugs == {films[k].slug : k \in DOMAIN films}
         IN  IF e.kind # kind \/ slug = <<>> \/ slug \in seen_slugs
             THEN ParseLoop(Tail(entries), kind, films)
             ELSE ParseLoop(Tail(entries), kind, Append(films, ScrapedFilm(slug, title)))

\* A variant: the lazy loop before the legacy loop
ParseWatchlistPageLazyFirst(page) ==
    [films |-> ParseLoop(page.entries, "legacy", ParseLoop(page.entries, "lazy", <<>>)),
     has_next |-> page.has_next]

\* _parse_watchlist_page(html) -> (films, has_next): the legacy loop, then the
\* lazy loop over the same document.
ParseWatchlistPage(page) ==
    [films |-> ParseLoop(page.entries, "lazy", ParseLoop(page.entries, "legacy", <<>>)),
     has_next |-> page.has_next]

(***************************************************************************)
(* The watchlist site as the model's environment serves it: the pages a    *)
(* fetch may return.                                                       *)
(***************************************************************************)
SlugA == <<"a">>
SlugB == <<"b">>
SlugC == <<"c">>
Slugs == {SlugA, SlugB, SlugC}
TitleA == <<"A">>
TitleB == <<"B">>

\* a legacy poster for a, with an image alt text
EntryA == Entry("legacy", <<" ", "a">>, <<>>, <<>>, <<>>, TitleA)
\* a lazy poster for b, named by data-item-slug and data-item-name
EntryB == Entry("lazy", <<>>, SlugB, <<>>, TitleB, <<>>)
\* a lazy poster for c, named only by data-target-link "/film/c/"
EntryC == Entry("lazy", <<>>, <<>>, <<"/", "f", "i", "l", "m", "/", "c", "/">>, <<>>, <<>>)
\* a widget that is no film
EntryOther == Entry("other", <<>>, <<>>, <<>>, <<>>, <<"X">>)

SiteEntries == {<<EntryOther>>, <<EntryA>>, <<EntryC>>}

RefA == ScrapedFilm(SlugA, TitleA)
RefB == ScrapedFilm(SlugB, TitleB)
RefC == ScrapedFilm(SlugC, SlugC)
Refs == {RefA, RefB, RefC}

(***************************************************************************)
(* tmdb.py: the pure part of get_movie_details and the Films _enrich_one   *)
(* and enrich_films build.                                                 *)
(***************************************************************************)
\* poster_url = f"{TMDB_IMAGE_BASE}/w300{poster_path}" if poster_path else None
PosterUrl(movie_data) ==
    IF movie_data.poster_path # None
    THEN Some(<<TMDB_IMAGE_BASE, "/w300", movie_data.poster_path[1]>>)
    ELSE None

\* year = int(release_date[:4]) if release_date and len(release_date) >= 4
\*        and release_date[:4].isdigit() else None
Year(movie_data) ==
    LET release_date == movie_data.release_date
    IN  IF release_date # <<>> /\ Len(release_date) >= 4 /\ IsDigitStr(Prefix(release_date, 4))
        THEN Some(ToInt(Prefix(release_date, 4)))
        ELSE None

\* genres = [g["name"] for g in movie_data.get("genres", [])]
Genres(movie_data) == [k \in DOMAIN movie_data.genres |-> movie_data.genres[k].name]

\* A variant: an absent region falls back to a region the response does hold
CountryDataAnyRegion(providers_data, country) ==
    IF country \in DOMAIN providers_data.results
    THEN providers_data.results[country]
    ELSE IF DOMAIN providers_data.results # {}
    THEN providers_data.results[CHOOSE c \in DOMAIN providers_data.results : TRUE]
    ELSE [flatrate |-> <<>>, link |-> None]

\* country_data = providers_resp.json().get("results", {}).get(country, {})
\* An absent region is the empty entry: no flatrate list, no link.
CountryData(providers_data, country) ==
    IF country \in DOMAIN providers_data.results
    THEN providers_data.results[country]
    ELSE [flatrate |-> <<>>, link |-> None]

LogoUrl(p) == IF p.logo_path # None THEN Some(<<TMDB_IMAGE_BASE, "/w45", p.logo_path[1]>>) ELSE None

Platforms(country_data) ==
    [k \in DOMAIN country_data.flatrate |->
        StreamingPlatform(country_data.flatrate[k].provider_id,
                          country_data.flatrate[k].provider_name,
                          LogoUrl(country_data.flatrate[k]))]

\* get_movie_details, from the two 2xx response bodies to the returned tuple
MovieDetails(movie_data, providers_data, country) ==
    [poster_url |-> PosterUrl(movie_data),
     year |-> Year(movie_data),
     genres |-> Genres(movie_data),
     platforms |-> Platforms(CountryData(providers_data, country)),
     watch_link |-> CountryData(providers_data, country).link]

\* A variant: the not_found Film built without last_checked=now
NotFoundFilmUnchecked(ref, country, now) ==
    Film(ref.slug, ref.title, None, None, "not_found", None, <<>>, <<>>, None, Some(country), None)

\* _enrich_one, search returned no id
NotFoundFilm(ref, country, now) ==
    Film(ref.slug, ref.title, None, None, "not_found", None, <<>>, <<>>, None, Some(country), Some(now))

\* A variant: the error Film of _enrich_one built without tmdb_id=tmdb_id
DetailsErrorFilmNoId(ref, tmdb_id, country, now) ==
    Film(ref.slug, ref.title, None, None, "error", None, <<>>, <<>>, None, Some(country), Some(now))

\* _enrich_one, get_movie_details raised
DetailsErrorFilm(ref, tmdb_id, country, now) ==
    Film(ref.slug, ref.title, None, Some(tmdb_id), "error", None, <<>>, <<>>, None, Some(country), Some(now))

\* A variant: the found Film built without tmdb_id=tmdb_id
FoundFilmNoId(ref, tmdb_id, d, country, now) ==
    Film(ref.slug, ref.title, d.year, None, "found", d.poster_url, d.genres, d.platforms, d.watch_link, Some(country), Some(now))

\* _enrich_one, everything succeeded
FoundFilm(ref, tmdb_id, d, country, now) ==
    Film(ref.slug, ref.title, d.year, Some(tmdb_id), "found", d.poster_url, d.genres, d.platforms, d.watch_link, Some(country), Some(now))

\* enrich_films, the task's result is an Exception
ErrorFilm(ref, country) ==
    Film(ref.slug, ref.title, None, None, "error", None, <<>>, <<>>, None, Some(country), None)

\* A variant: asyncio.gather(*tasks), the first exception of a task propagates
GatherPropagates == FALSE

\* asyncio.gather(*tasks, return_exceptions=True)
GatherReturnExceptions == TRUE

(***************************************************************************)
(* The TMDB catalog as the model's environment serves it.  What the        *)
(* catalog knows is fixed: a title's id, and the bodies of an id's detail  *)
(* and watch-provider responses.  Whether a request fails, and whether a   *)
(* search finds the title at all, is decided anew at every request.        *)
(***************************************************************************)
CatalogId(title) == IF title = TitleA THEN 1 ELSE IF title = TitleB THEN 2 ELSE 3

DateA == <<"2", "0", "2", "3", "-", "0", "7", "-", "2", "1">>
DateC == <<"T", "B", "A">>

CatalogMovie(tmdb_id) ==
    IF tmdb_id = 1
    THEN [poster_path |-> Some("/a.jpg"), release_date |-> DateA,
          genres |-> <<[id |-> 18, name |-> "Drama"], [id |-> 36, name |-> "History"]>>]
    ELSE IF tmdb_id = 2
    THEN [poster_path |-> None, release_date |-> <<>>, genres |-> <<>>]
    ELSE [poster_path |-> Some("/c.jpg"), release_date |-> DateC,
          genres |-> <<[id |-> 18, name |-> "Drama"]>>]

Netflix == [provider_id |-> 8, provider_name |-> "Netflix", logo_path |-> Some("/netflix.png")]
Mubi == [provider_id |-> 11, provider_name |-> "MUBI", logo_path |-> None]

CatalogProviders(tmdb_id) ==
    IF tmdb_id = 1
    THEN [results |-> ("GB" :> [link |-> Some("https://www.themoviedb.org/movie/1/watch?locale=GB"),
                               flatrate |-> <<Netflix, Mubi>>])]
    ELSE IF tmdb_id = 2
    THEN [results |-> <<>>]
    ELSE [results |-> ("US" :> [link |-> Some("https://www.themoviedb.org/movie/3/watch?locale=US"),
                               flatrate |-> <<Netflix>>])]

(***************************************************************************)
(* database.py: the films table as a set of rows.  A row holds the columns *)
(* upsert_film writes; the id column is assigned by SQLite and never read  *)
(* or written by the pipeline.                                             *)
(***************************************************************************)
\* json.dumps of a list: the text column holding it
JsonDumps(v) == [json |-> v]

\* the tuple of values upsert_film binds
Row(film) ==
    [letterboxd_slug |-> film.letterboxd_slug,
     title |-> film.title,
     year |-> film.year,
     tmdb_id |-> film.tmdb_id,
     tmdb_status |-> film.tmdb_status,
     poster_url |-> film.poster_url,
     overview |-> film.overview,
     runtime_minutes |-> film.runtime_minutes,
     original_language |-> film.original_language,
     genres |-> JsonDumps(film.genres),
     streaming_platforms |-> JsonDumps(film.streaming_platforms),
     watch_link |-> film.watch_link,
     country |-> film.country,
     last_checked |-> film.last_checked,
     source |-> film.source]

\* A variant: UPDATE films SET ... WHERE letterboxd_slug = ?, which writes
\* nothing for a slug the table does not hold
UpsertFilmUpdateOnly(rows, film) ==
    {IF r.letterboxd_slug = film.letterboxd_slug THEN Row(film) ELSE r : r \in rows}

\* A variant: a plain INSERT on a table whose slug column is not UNIQUE
UpsertFilmInsertOnly(rows, film) == rows \cup {Row(film)}

\* A variant: the table rebuilt from the film upserted (DELETE FROM films, INSERT)
UpsertFilmRebuild(rows, film) == {Row(film)}

\* A variant: ON CONFLICT ... SET genres = the stored list extended by the new one
UpsertFilmExtendsGenres(rows, film) ==
    IF \E r \in rows : r.letterboxd_slug = film.letterboxd_slug
    THEN {IF r.letterboxd_slug = film.letterboxd_slug
          THEN [Row(film) EXCEPT !.genres = JsonDumps(r.genres.json \o film.genres)]
          ELSE r : r \in rows}
    ELSE rows \cup {Row(film)}

\* INSERT ... ON CONFLICT(letterboxd_slug) DO UPDATE SET <every column> = excluded.<column>
UpsertFilm(rows, film) ==
    IF \E r \in rows : r.letterboxd_slug = film.letterboxd_slug
    THEN {IF r.letterboxd_slug = film.letterboxd_slug THEN Row(film) ELSE r : r \in rows}
    ELSE rows \cup {Row(film)}

\* delete_films_not_in_watchlist(slugs): the store's deleteNotIn(stableIds),
\* "delete every stored Entity whose stableId is not present in this run's
\* reference set".  database.py under src/ does not hold it.
DeleteFilmsNotInWatchlist(rows, slugs) == {r \in rows : r.letterboxd_slug \in slugs}

StoreSlugs(rows) == {r.letterboxd_slug : r \in rows}

(***************************************************************************)
(* State.                                                                  *)
(***************************************************************************)
VARIABLES
    is_refreshing,  \* scheduler._refresh_state["is_refreshing"]
    refresh_lock,   \* scheduler._refresh_lock is locked
    semaphore,      \* tmdb._semaphore: the permits left
    sem_waiters,    \* tmdb._semaphore: the tasks waiting for a permit, first come first
    ready,          \* the event loop's queue of run_refresh coroutines started and not yet run
    pc,             \* each invocation's position
    ret,            \* each run_refresh invocation's outcome for its caller
    response,       \* each POST /refresh request's answer
    page,           \* scrape_watchlist: page
    films,          \* scrape_watchlist: films
    scraped,        \* run_refresh: scraped
    tasks,          \* enrich_films: the _enrich_one tasks, in the order of scraped_films
    enriched,       \* run_refresh: enriched, as the sequence of its values in dict order
    cursor,         \* run_refresh: how many of enriched.values() are upserted
    store,          \* the films table
    clock,          \* datetime.now(): the readings taken so far
    orphans,        \* enrich_films: requests of a detail/provider pair still in flight after their gather raised
    simul,          \* history: <<i, j>> when i and j stood in the ready queue together, i first, the state Idle
    html,           \* _parse_watchlist_page called directly: the documents of the calls to come and made
    parsed,         \* _parse_watchlist_page called directly: what the calls made so far returned
    has_next_page,  \* scrape_watchlist: has_next, None before the first page is parsed and after the return
    history         \* history: [on, runs]; while on, what each run that returned True scraped, enriched and left stored

vars == <<is_refreshing, refresh_lock, semaphore, sem_waiters, ready, pc, ret, response, page, films, scraped, tasks, enriched, cursor, store, clock, orphans, simul, html, parsed, has_next_page, history>>

Invocations == 1..NumInvocations

\* No history of the runs is kept.
HistoryOff == [on |-> FALSE, runs |-> <<>>]

\* The positions between run_refresh's transition to Refreshing and its release of the flag.
PipelinePcs == {"scrape", "sleep", "enrich", "gather", "enriched", "upsert", "delete", "deleted"}

InPipeline(i) == pc[i] \in PipelinePcs

RefOfSlug(slug) == CHOOSE r \in Refs : r.slug = slug

\* A row as an earlier refresh left it: the film found, checked at time 0.
PriorFilm(slug) ==
    LET ref == RefOfSlug(slug)
        tmdb_id == CatalogId(ref.title)
    IN  FoundFilm(ref, tmdb_id, MovieDetails(CatalogMovie(tmdb_id), CatalogProviders(tmdb_id), Country), Country, 0)

PriorRows(slugs) == {Row(PriorFilm(slug)) : slug \in slugs}

InitLocals ==
    /\ refresh_lock = FALSE
    /\ semaphore = SemaphorePermits
    /\ sem_waiters = <<>>
    /\ ready = <<>>
    /\ ret = [i \in Invocations |-> "pending"]
    /\ response = [i \in Invocations |-> "none"]
    /\ page = [i \in Invocations |-> 0]
    /\ films = [i \in Invocations |-> <<>>]
    /\ tasks = [i \in Invocations |-> <<>>]
    /\ enriched = [i \in Invocations |-> <<>>]
    /\ cursor = [i \in Invocations |-> 0]
    /\ clock = 0
    /\ orphans = [i \in Invocations |-> 0]
    /\ simul = {}
    /\ has_next_page = [i \in Invocations |-> None]

\* The process is up, init_db has run, nothing is refreshing; the table holds
\* what earlier refreshes left.
Init ==
    /\ InitLocals
    /\ is_refreshing = FALSE
    /\ pc = [i \in Invocations |-> "new"]
    /\ scraped = [i \in Invocations |-> <<>>]
    /\ store \in {PriorRows(S) : S \in SUBSET Slugs}
    /\ html = <<>>
    /\ parsed = <<>>
    /\ history = HistoryOff

(***************************************************************************)
(* main.py and the scheduler: how run_refresh gets invoked.                *)
(***************************************************************************)
\* A variant: get_refresh_state returns _refresh_lock.locked()
GetRefreshStateLocked == refresh_lock

\* A variant: the value the flag had at import, read once
GetRefreshStateAtImport == FALSE

\* scheduler.get_refresh_state()
GetRefreshState == is_refreshing

\* Invocations are numbered in the order in which they arrive.
Arrived(i) == \A j \in Invocations : j < i => pc[j] # "new"

\* i joins the ready queue; it stood there with the queue's head while Idle
Enqueue(i) ==
    /\ ready' = Append(ready, i)
    /\ simul' = IF ready # <<>> /\ ~is_refreshing THEN simul \cup {<<Head(ready), i>>} ELSE simul

\* The cron job fires (start_scheduler's add_job), or a caller starts
\* run_refresh directly: the coroutine is scheduled on the loop.
ScheduledRun(i) ==
    /\ pc[i] = "new"
    /\ Arrived(i)
    /\ pc' = [pc EXCEPT ![i] = "ready"]
    /\ Enqueue(i)
    /\ UNCHANGED <<is_refreshing, refresh_lock, semaphore, sem_waiters, ret, response, page, films, scraped, tasks, enriched, cursor, store, clock, orphans, html, parsed, has_next_page, history>>

\* POST /refresh: the handler, up to its return
ManualRefresh(i) ==
    /\ ready = <<>>
    /\ pc[i] = "new"
    /\ Arrived(i)
    /\ IF GetRefreshState
       THEN /\ response' = [response EXCEPT ![i] = "already_running"]
            /\ pc' = [pc EXCEPT ![i] = "rejected"]
       ELSE /\ response' = [response EXCEPT ![i] = "started"]
            /\ pc' = [pc EXCEPT ![i] = "queued"]
    /\ UNCHANGED <<is_refreshing, refresh_lock, semaphore, sem_waiters, ready, ret, page, films, scraped, tasks, enriched, cursor, store, clock, orphans, simul, html, parsed, has_next_page, history>>

\* The response is sent; the background task calls run_refresh.
BackgroundRun(i) ==
    /\ pc[i] = "queued"
    /\ pc' = [pc EXCEPT ![i] = "ready"]
    /\ Enqueue(i)
    /\ UNCHANGED <<is_refreshing, refresh_lock, semaphore, sem_waiters, ret, response, page, films, scraped, tasks, enriched, cursor, store, clock, orphans, html, parsed, has_next_page, history>>

(***************************************************************************)
(* scheduler.py: run_refresh.                                              *)
(***************************************************************************)
\* A variant: the tests of lines 29 and 34 left out
NeverRefreshing == FALSE

\* A variant: the tests ask the lock, which is free again once the flag is set
LockedRefreshing == refresh_lock

\* The tests of lines 29 and 34: a refresh is in flight.
AlreadyRefreshing == is_refreshing

\* A variant: the flag cleared after `return True` instead of in a finally block
FlagOnExitNoFinally(raised) == raised

\* A variant: no exit clears the flag
FlagOnExitStuck(raised) == TRUE

\* The flag as run_refresh leaves it: the finally block clears it whether the
\* body returned or raised.
FlagOnExit(raised) == FALSE

\* run_refresh leaves through its finally block with `outcome`
Exit(i, outcome) ==
    /\ is_refreshing' = FlagOnExit(outcome \notin {"True", "False"})
    /\ pc' = [pc EXCEPT ![i] = "done"]
    /\ ret' = [ret EXCEPT ![i] = outcome]
    /\ page' = [page EXCEPT ![i] = 0]
    /\ films' = [films EXCEPT ![i] = <<>>]
    /\ scraped' = [scraped EXCEPT ![i] = <<>>]
    /\ enriched' = [enriched EXCEPT ![i] = <<>>]
    /\ cursor' = [cursor EXCEPT ![i] = 0]

\* A variant: the tests of lines 29 and 34 inside the try block, so that the
\* finally block runs on `return False` too
RunRefreshBeginInTry(i) ==
    /\ ready # <<>> /\ Head(ready) = i
    /\ pc[i] = "ready"
    /\ ready' = Tail(ready)
    /\ refresh_lock = FALSE
    /\ IF AlreadyRefreshing
       THEN /\ pc' = [pc EXCEPT ![i] = "done"]
            /\ ret' = [ret EXCEPT ![i] = "False"]
            /\ is_refreshing' = FALSE
            /\ UNCHANGED page
       ELSE /\ is_refreshing' = TRUE
            /\ pc' = [pc EXCEPT ![i] = "scrape"]
            /\ page' = [page EXCEPT ![i] = 1]
            /\ UNCHANGED ret
    /\ UNCHANGED <<refresh_lock, semaphore, sem_waiters, response, films, scraped, tasks, enriched, cursor, store, clock, orphans, simul, html, parsed, has_next_page, history>>

\* Lines 29 to 40, up to the first page request: the coroutine at the head of
\* the ready queue runs.  The lock is free whenever a coroutine reaches it
\* (its holder never awaits), and is released on leaving the block.
RunRefreshBegin(i) ==
    /\ ready # <<>> /\ Head(ready) = i
    /\ pc[i] = "ready"
    /\ ready' = Tail(ready)
    /\ refresh_lock = FALSE
    /\ IF AlreadyRefreshing
       THEN /\ pc' = [pc EXCEPT ![i] = "done"]
            /\ ret' = [ret EXCEPT ![i] = "False"]
            /\ UNCHANGED <<is_refreshing, page>>
       ELSE /\ is_refreshing' = TRUE
            /\ pc' = [pc EXCEPT ![i] = "scrape"]
            /\ page' = [page EXCEPT ![i] = 1]
            /\ UNCHANGED ret
    /\ UNCHANGED <<refresh_lock, semaphore, sem_waiters, response, films, scraped, tasks, enriched, cursor, store, clock, orphans, simul, html, parsed, has_next_page, history>>

(***************************************************************************)
(* scraper.py: scrape_watchlist, inside run_refresh.                       *)
(***************************************************************************)
\* A variant: run_refresh catches the scrape's exception and returns True
OnFetchErrorSwallowed(i) ==
    /\ Exit(i, "True")
    /\ UNCHANGED <<tasks, store, clock>>

\* The page request fails: client.get raises, or raise_for_status does.
\* scrape_watchlist raises, and run_refresh with it.
OnFetchError(i) ==
    /\ Exit(i, "raised:scrape")
    /\ UNCHANGED <<tasks, store, clock>>

FetchError(i) ==
    /\ ready = <<>>
    /\ pc[i] = "scrape"
    /\ OnFetchError(i)
    /\ has_next_page' = [has_next_page EXCEPT ![i] = None]
    /\ UNCHANGED <<refresh_lock, semaphore, sem_waiters, ready, response, orphans, simul, html, parsed, history>>

\* A variant: films = page_films in place of films.extend(page_films)
FetchResponseOverwrite(i, body) ==
    /\ ready = <<>>
    /\ pc[i] = "scrape"
    /\ body.has_next => page[i] < MaxPages
    /\ LET parsed_page == ParseWatchlistPage(body)
       IN  IF parsed_page.has_next
           THEN /\ films' = [films EXCEPT ![i] = parsed_page.films]
                /\ page' = [page EXCEPT ![i] = @ + 1]
                /\ pc' = [pc EXCEPT ![i] = "sleep"]
                /\ UNCHANGED scraped
                /\ has_next_page' = [has_next_page EXCEPT ![i] = Some(parsed_page.has_next)]
           ELSE /\ films' = [films EXCEPT ![i] = <<>>]
                /\ page' = [page EXCEPT ![i] = 0]
                /\ scraped' = [scraped EXCEPT ![i] = parsed_page.films]
                /\ pc' = [pc EXCEPT ![i] = "enrich"]
                /\ has_next_page' = [has_next_page EXCEPT ![i] = None]
    /\ UNCHANGED <<is_refreshing, refresh_lock, semaphore, sem_waiters, ready, ret, response, tasks, enriched, cursor, store, clock, orphans, simul, html, parsed, history>>

\* A variant: no test of has_next; the loop goes on to the next page while
\* the site has one
FetchResponseNoNextTest(i, body) ==
    /\ ready = <<>>
    /\ pc[i] = "scrape"
    /\ body.has_next => page[i] < MaxPages
    /\ LET parsed_page == ParseWatchlistPage(body)
           all == films[i] \o parsed_page.films
       IN  IF page[i] < MaxPages
           THEN /\ films' = [films EXCEPT ![i] = all]
                /\ page' = [page EXCEPT ![i] = @ + 1]
                /\ pc' = [pc EXCEPT ![i] = "sleep"]
                /\ UNCHANGED scraped
                /\ has_next_page' = [has_next_page EXCEPT ![i] = Some(parsed_page.has_next)]
           ELSE /\ films' = [films EXCEPT ![i] = <<>>]
                /\ page' = [page EXCEPT ![i] = 0]
                /\ scraped' = [scraped EXCEPT ![i] = all]
                /\ pc' = [pc EXCEPT ![i] = "enrich"]
                /\ has_next_page' = [has_next_page EXCEPT ![i] = None]
    /\ UNCHANGED <<is_refreshing, refresh_lock, semaphore, sem_waiters, ready, ret, response, tasks, enriched, cursor, store, clock, orphans, simul, html, parsed, history>>

\* The page arrives with a 2xx status.  The site has at most MaxPages pages.
FetchResponse(i, body) ==
    /\ ready = <<>>
    /\ pc[i] = "scrape"
    /\ body.has_next => page[i] < MaxPages
    /\ LET parsed_page == ParseWatchlistPage(body)
           all == films[i] \o parsed_page.films
       IN  IF parsed_page.has_next
           THEN /\ films' = [films EXCEPT ![i] = all]
                /\ page' = [page EXCEPT ![i] = @ + 1]
                /\ pc' = [pc EXCEPT ![i] = "sleep"]
                /\ UNCHANGED scraped
                /\ has_next_page' = [has_next_page EXCEPT ![i] = Some(parsed_page.has_next)]
           ELSE /\ films' = [films EXCEPT ![i] = <<>>]
                /\ page' = [page EXCEPT ![i] = 0]
                /\ scraped' = [scraped EXCEPT ![i] = all]
                /\ pc' = [pc EXCEPT ![i] = "enrich"]
                /\ has_next_page' = [has_next_page EXCEPT ![i] = None]
    /\ UNCHANGED <<is_refreshing, refresh_lock, semaphore, sem_waiters, ready, ret, response, tasks, enriched, cursor, store, clock, orphans, simul, html, parsed, history>>

\* asyncio.sleep(request_delay) is over: the next page is requested.
SleepDone(i) ==
    /\ ready = <<>>
    /\ pc[i] = "sleep"
    /\ pc' = [pc EXCEPT ![i] = "scrape"]
    /\ UNCHANGED <<is_refreshing, refresh_lock, semaphore, sem_waiters, ready, ret, response, page, films, scraped, tasks, enriched, cursor, store, clock, orphans, simul, html, parsed, has_next_page, history>>

(***************************************************************************)
(* tmdb.py: the semaphore.  asyncio.Semaphore serves its waiters first     *)
(* come first: acquire() returns at once when a permit is free and nobody  *)
(* waits, release() hands the permit to the first waiter, which then sends *)
(* its request(s).  S is [t, value, waiters]: the tasks of every           *)
(* invocation, the permits left, the waiting tasks <<i, k>>.               *)
(***************************************************************************)
Sem == [t |-> tasks, value |-> semaphore, waiters |-> sem_waiters]

\* A variant: a lock in place of the semaphore, one holder at a time
AcquireOneAtATime(S, i, k, got, waiting) ==
    IF S.value = SemaphorePermits /\ S.waiters = <<>>
    THEN [S EXCEPT !.value = @ - 1, !.t[i][k].pc = got]
    ELSE [S EXCEPT !.waiters = Append(@, <<i, k>>), !.t[i][k].pc = waiting]

\* `async with _semaphore`, entering: task k of invocation i goes on to
\* `got`, or waits at `waiting`
Acquire(S, i, k, got, waiting) ==
    IF S.value > 0 /\ S.waiters = <<>>
    THEN [S EXCEPT !.value = @ - 1, !.t[i][k].pc = got]
    ELSE [S EXCEPT !.waiters = Append(@, <<i, k>>), !.t[i][k].pc = waiting]

\* A variant: release() counts the permit back and wakes nobody
ReleaseWakesNobody(S) == [S EXCEPT !.value = @ + 1]

\* `async with _semaphore`, leaving
Release(S) ==
    IF S.waiters # <<>>
    THEN LET w == Head(S.waiters)
         IN  [S EXCEPT !.waiters = Tail(@),
                       !.t[w[1]][w[2]].pc = IF @ = "wait_search" THEN "search" ELSE "details2"]
    ELSE [S EXCEPT !.value = @ + 1]

SetSem(S) ==
    /\ tasks' = S.t
    /\ semaphore' = S.value
    /\ sem_waiters' = S.waiters

(***************************************************************************)
(* tmdb.py: enrich_films, _enrich_one, search_movie, get_movie_details.    *)
(*                                                                         *)
(* A task is [pc, search, details, tmdb_id, film, now]; search and details *)
(* record how search_movie and get_movie_details ended.  pc: "wait_search" *)
(* and "search" (search_movie, waiting for a permit, request in flight),   *)
(* "wait_details", "details2" and "details1" (get_movie_details, waiting   *)
(* for a permit, both requests in flight, one of the two answered), "done" *)
(* (returned film), "raised" (ended with an exception).                    *)
(***************************************************************************)
NewTask(now) ==
    [pc |-> "new", search |-> "pending", details |-> "pending", tmdb_id |-> None, film |-> None, now |-> now]

\* The tasks start in order, each running up to its first await.
RECURSIVE StartTasks(_, _, _)
StartTasks(S, i, k) ==
    IF k > Len(S.t[i]) THEN S
    ELSE StartTasks(Acquire(S, i, k, "search", "wait_search"), i, k + 1)

\* enrich_films up to `await asyncio.gather(...)`; every _enrich_one reads the clock
EnrichStart(i) ==
    /\ ready = <<>>
    /\ pc[i] = "enrich"
    /\ clock' = clock + 1
    /\ SetSem(StartTasks([Sem EXCEPT !.t[i] = [k \in DOMAIN scraped[i] |-> NewTask(clock + 1)]], i, 1))
    /\ pc' = [pc EXCEPT ![i] = "gather"]
    /\ UNCHANGED <<is_refreshing, refresh_lock, ready, ret, response, page, films, scraped, enriched, cursor, store, orphans, simul, html, parsed, has_next_page, history>>

SearchOutcomes == {"transport_error", "http_status_error", "empty", "hit"}

\* search_movie's request ends: client.get raises (transport_error), or the
\* response arrives with a non-2xx status, with no results, or with a result.
SearchResponse(i, k, outcome) ==
    /\ ready = <<>>
    /\ pc[i] = "gather"
    /\ k \in DOMAIN tasks[i]
    /\ tasks[i][k].pc = "search"
    /\ LET ref == scraped[i][k]
           now == tasks[i][k].now
           failed == outcome \in {"transport_error", "http_status_error"}
           S1 == [Release(Sem) EXCEPT !.t[i][k].search = IF failed THEN "failed" ELSE outcome]
       IN  SetSem(CASE failed ->
                         [S1 EXCEPT !.t[i][k].pc = "raised"]
                    [] outcome = "empty" ->
                         [S1 EXCEPT !.t[i][k].pc = "done",
                                    !.t[i][k].film = Some(NotFoundFilm(ref, Country, now))]
                    [] outcome = "hit" ->
                         Acquire([S1 EXCEPT !.t[i][k].tmdb_id = Some(CatalogId(ref.title))],
                                 i, k, "details2", "wait_details"))
    /\ UNCHANGED <<is_refreshing, refresh_lock, ready, pc, ret, response, page, films, scraped, enriched, cursor, store, clock, orphans, simul, html, parsed, has_next_page, history>>

\* The first of the two gathered requests ends: with a response (of any
\* status), or client.get raises.  On a raise gather raises at once, the
\* permit is released, _enrich_one returns the error film, and the other
\* request stays in flight.
PairFirstResponse(i, k, outcome) ==
    /\ ready = <<>>
    /\ pc[i] = "gather"
    /\ k \in DOMAIN tasks[i]
    /\ tasks[i][k].pc = "details2"
    /\ LET ref == scraped[i][k]
           t == tasks[i][k]
       IN  IF outcome = "response"
           THEN /\ tasks' = [tasks EXCEPT ![i][k].pc = "details1"]
                /\ UNCHANGED <<semaphore, sem_waiters, orphans>>
           ELSE /\ SetSem([Release(Sem) EXCEPT !.t[i][k].pc = "done",
                                               !.t[i][k].details = "failed",
                                               !.t[i][k].film = Some(DetailsErrorFilm(ref, t.tmdb_id[1], Country, t.now))])
                /\ orphans' = [orphans EXCEPT ![i] = @ + 1]
    /\ UNCHANGED <<is_refreshing, refresh_lock, ready, pc, ret, response, page, films, scraped, enriched, cursor, store, clock, simul, html, parsed, has_next_page, history>>

\* The second of the two ends: both responses are 2xx (ok), one of the two
\* has a non-2xx status (raise_for_status raises), or client.get raises.
PairSecondResponse(i, k, outcome) ==
    /\ ready = <<>>
    /\ pc[i] = "gather"
    /\ k \in DOMAIN tasks[i]
    /\ tasks[i][k].pc = "details1"
    /\ LET ref == scraped[i][k]
           t == tasks[i][k]
           tmdb_id == t.tmdb_id[1]
           d == MovieDetails(CatalogMovie(tmdb_id), CatalogProviders(tmdb_id), Country)
           film == IF outcome = "ok"
                   THEN FoundFilm(ref, tmdb_id, d, Country, t.now)
                   ELSE DetailsErrorFilm(ref, tmdb_id, Country, t.now)
       IN  SetSem([Release(Sem) EXCEPT !.t[i][k].pc = "done",
                                       !.t[i][k].details = IF outcome = "ok" THEN "ok" ELSE "failed",
                                       !.t[i][k].film = Some(film)])
    /\ UNCHANGED <<is_refreshing, refresh_lock, ready, pc, ret, response, page, films, scraped, enriched, cursor, store, clock, orphans, simul, html, parsed, has_next_page, history>>

\* A request left in flight by a gather that raised ends.
OrphanResponse(i) ==
    /\ ready = <<>>
    /\ orphans[i] > 0
    /\ orphans' = [orphans EXCEPT ![i] = @ - 1]
    /\ UNCHANGED <<is_refreshing, refresh_lock, semaphore, sem_waiters, ready, pc, ret, response, page, films, scraped, tasks, enriched, cursor, store, clock, simul, html, parsed, has_next_page, history>>

\* enriched[film.letterboxd_slug] = film: a dict keeps a key's first position
DictSet(d, film) ==
    IF \E n \in DOMAIN d : d[n].letterboxd_slug = film.letterboxd_slug
    THEN [n \in DOMAIN d |-> IF d[n].letterboxd_slug = film.letterboxd_slug THEN film ELSE d[n]]
    ELSE Append(d, film)

\* zip(scraped_films, results): the result paired with scraped_films[k]
ResultFor(results, k) == results[k]

\* the loop of enrich_films over zip(scraped_films, results), from pair k on
RECURSIVE EnrichedFrom(_, _, _, _)
EnrichedFrom(scraped_films, results, k, d) ==
    IF k > Len(scraped_films) THEN d
    ELSE LET result == ResultFor(results, k)
             film == IF result.pc = "raised"
                     THEN ErrorFilm(scraped_films[k], Country)
                     ELSE result.film[1]
         IN  EnrichedFrom(scraped_films, results, k + 1, DictSet(d, film))

\* Every task has ended: gather returns, the client is closed, the dict is
\* built and returned to run_refresh.
EnrichReturn(i) ==
    /\ ready = <<>>
    /\ pc[i] = "gather"
    /\ \A k \in DOMAIN tasks[i] : tasks[i][k].pc \in {"done", "raised"}
    /\ orphans' = [orphans EXCEPT ![i] = 0]
    /\ IF GatherReturnExceptions \/ \A k \in DOMAIN tasks[i] : tasks[i][k].pc # "raised"
       THEN /\ enriched' = [enriched EXCEPT ![i] = EnrichedFrom(scraped[i], tasks[i], 1, <<>>)]
            /\ pc' = [pc EXCEPT ![i] = "enriched"]
            /\ UNCHANGED <<is_refreshing, ret, page, films, scraped, cursor>>
       ELSE Exit(i, "raised:enrich")
    /\ UNCHANGED <<refresh_lock, semaphore, sem_waiters, ready, response, tasks, store, clock, simul, html, parsed, has_next_page, history>>

(***************************************************************************)
(* scheduler.py: run_refresh, lines 46 to 56.                              *)
(***************************************************************************)
\* run_refresh goes on after enrich_films: the first upsert_film call, or,
\* with nothing enriched, the delete call.
RunRefreshPersist(i) ==
    /\ ready = <<>>
    /\ pc[i] = "enriched"
    /\ tasks' = [tasks EXCEPT ![i] = <<>>]
    /\ pc' = [pc EXCEPT ![i] = IF enriched[i] = <<>> THEN "delete" ELSE "upsert"]
    /\ UNCHANGED <<is_refreshing, refresh_lock, semaphore, sem_waiters, ready, ret, response, page, films, scraped, enriched, cursor, store, clock, orphans, simul, html, parsed, has_next_page, history>>

\* A variant: the delete call inside the loop, after the first upsert_film
UpsertDoneThenDelete(i) ==
    /\ ready = <<>>
    /\ pc[i] = "upsert"
    /\ store' = UpsertFilm(store, enriched[i][cursor[i] + 1])
    /\ cursor' = [cursor EXCEPT ![i] = @ + 1]
    /\ pc' = [pc EXCEPT ![i] = "delete"]
    /\ UNCHANGED <<is_refreshing, refresh_lock, semaphore, sem_waiters, ready, ret, response, page, films, scraped, tasks, enriched, clock, orphans, simul, html, parsed, has_next_page, history>>

\* upsert_film commits and returns; the loop calls the next upsert_film, or
\* delete_films_not_in_watchlist after the last.
UpsertDone(i) ==
    /\ ready = <<>>
    /\ pc[i] = "upsert"
    /\ store' = UpsertFilm(store, enriched[i][cursor[i] + 1])
    /\ cursor' = [cursor EXCEPT ![i] = @ + 1]
    /\ pc' = [pc EXCEPT ![i] = IF cursor[i] + 1 = Len(enriched[i]) THEN "delete" ELSE "upsert"]
    /\ UNCHANGED <<is_refreshing, refresh_lock, semaphore, sem_waiters, ready, ret, response, page, films, scraped, tasks, enriched, clock, orphans, simul, html, parsed, has_next_page, history>>

\* upsert_film raises (the database is locked, the disk is full): nothing is written.
UpsertError(i) ==
    /\ ready = <<>>
    /\ pc[i] = "upsert"
    /\ Exit(i, "raised:upsert")
    /\ UNCHANGED <<refresh_lock, semaphore, sem_waiters, ready, response, tasks, store, clock, orphans, simul, html, parsed, has_next_page, history>>

\* A variant: the slugs of the films enrich_films resolved
ReconcileFoundSlugs(i) ==
    {enriched[i][n].letterboxd_slug : n \in {m \in DOMAIN enriched[i] : enriched[i][m].tmdb_status = "found"}}

\* [film.slug for film in scraped]
ReconcileSlugs(i) == {scraped[i][k].slug : k \in DOMAIN scraped[i]}

\* delete_films_not_in_watchlist commits; run_refresh has not resumed yet.
DeleteDone(i) ==
    /\ ready = <<>>
    /\ pc[i] = "delete"
    /\ store' = DeleteFilmsNotInWatchlist(store, ReconcileSlugs(i))
    /\ pc' = [pc EXCEPT ![i] = "deleted"]
    /\ UNCHANGED <<is_refreshing, refresh_lock, semaphore, sem_waiters, ready, ret, response, page, films, scraped, tasks, enriched, cursor, clock, orphans, simul, html, parsed, has_next_page, history>>

\* delete_films_not_in_watchlist raises: nothing is deleted.
DeleteError(i) ==
    /\ ready = <<>>
    /\ pc[i] = "delete"
    /\ Exit(i, "raised:delete")
    /\ UNCHANGED <<refresh_lock, semaphore, sem_waiters, ready, response, tasks, store, clock, orphans, simul, html, parsed, has_next_page, history>>

\* run_refresh resumes after the delete: "Refresh complete.", return True
RunRefreshReturn(i) ==
    /\ ready = <<>>
    /\ pc[i] = "deleted"
    /\ Exit(i, "True")
    /\ UNCHANGED <<refresh_lock, semaphore, sem_waiters, ready, response, tasks, store, clock, orphans, simul, html, parsed, has_next_page>>
    /\ history' = IF history.on
                  THEN [history EXCEPT !.runs = Append(@, [scraped |-> scraped[i], enriched |-> enriched[i], store |-> store])]
                  ELSE history

(***************************************************************************)
(* Specifications.                                                         *)
(***************************************************************************)
SitePages == {Page(entries, has_next) : entries \in SiteEntries, has_next \in BOOLEAN}

EnrichStep(i) ==
    \/ EnrichStart(i)
    \/ \E k \in 1..Len(tasks[i]), outcome \in SearchOutcomes : SearchResponse(i, k, outcome)
    \/ \E k \in 1..Len(tasks[i]), outcome \in {"response", "transport_error"} : PairFirstResponse(i, k, outcome)
    \/ \E k \in 1..Len(tasks[i]), outcome \in {"ok", "http_status_error", "transport_error"} : PairSecondResponse(i, k, outcome)
    \/ OrphanResponse(i)
    \/ EnrichReturn(i)

Next ==
    \E i \in Invocations :
        \/ ScheduledRun(i)
        \/ ManualRefresh(i)
        \/ BackgroundRun(i)
        \/ RunRefreshBegin(i)
        \/ FetchError(i)
        \/ \E body \in SitePages : FetchResponse(i, body)
        \/ SleepDone(i)
        \/ EnrichStep(i)
        \/ RunRefreshPersist(i)
        \/ UpsertDone(i)
        \/ UpsertError(i)
        \/ DeleteDone(i)
        \/ DeleteError(i)
        \/ RunRefreshReturn(i)

\* The whole program: triggers, refreshes, the store.
Spec == Init /\ [][Next]_vars

\* One enrich_films call, by a run_refresh whose scrape returned any list of
\* up to MaxBatch references.
Batches(n) == UNION {[1..m -> Refs] : m \in 0..n}

InitEnrich ==
    /\ InitLocals
    /\ is_refreshing = TRUE
    /\ pc = [i \in Invocations |-> IF i = 1 THEN "enrich" ELSE "new"]
    /\ \E batch \in Batches(MaxBatch) : scraped = [i \in Invocations |-> IF i = 1 THEN batch ELSE <<>>]
    /\ store = {}
    /\ html = <<>>
    /\ parsed = <<>>
    /\ history = HistoryOff

NextEnrich == \E i \in Invocations : EnrichStep(i)

SpecEnrich == InitEnrich /\ [][NextEnrich]_vars

\* One enrich_films call on a batch large enough to use up the semaphore:
\* LoadSize references with distinct slugs and titles.
LoadSize == SemaphorePermits \div 2 + 1

LoadRef(k) == ScrapedFilm(<<"f", Digits[k + 1]>>, <<"F", Digits[k + 1]>>)

LoadBatch == [k \in 1..LoadSize |-> LoadRef(k)]

InitLoad ==
    /\ InitLocals
    /\ is_refreshing = TRUE
    /\ pc = [i \in Invocations |-> IF i = 1 THEN "enrich" ELSE "new"]
    /\ scraped = [i \in Invocations |-> IF i = 1 THEN LoadBatch ELSE <<>>]
    /\ store = {}
    /\ html = <<>>
    /\ parsed = <<>>
    /\ history = HistoryOff

SpecLoad == InitLoad /\ [][NextEnrich]_vars

\* _parse_watchlist_page called directly, as the tests call it, on a legacy
\* page and then on the page that shows the same films in the current markup.
\* An item is a film as the site means to show it: the text of its slug
\* attribute, its title ("" for none), and how the current markup carries
\* them: "slug_alt" (data-item-slug, img alt), "slug_name" (data-item-slug,
\* data-item-name) or "link_alt" (data-target-link "/film/<slug>/", img alt).
MaxEntries == 2

SlugTexts == {SlugA, <<" ", "a">>, SlugC, <<>>}

Items ==
    [slug_text : SlugTexts, title : {TitleA, <<>>}, style : {"slug_alt", "slug_name", "link_alt"}]

ItemLists == UNION {[1..m -> Items] : m \in 0..MaxEntries}

LegacyEntry(item) == Entry("legacy", item.slug_text, <<>>, <<>>, <<>>, item.title)

LazyEntry(item) ==
    CASE item.style = "slug_alt" -> Entry("lazy", <<>>, item.slug_text, <<>>, <<>>, item.title)
      [] item.style = "slug_name" -> Entry("lazy", <<>>, item.slug_text, <<>>, item.title, <<>>)
      [] item.style = "link_alt" ->
            Entry("lazy", <<>>, <<>>, <<"/", "f", "i", "l", "m", "/">> \o item.slug_text \o <<"/">>, <<>>, item.title)

LegacyPage(items, has_next) == Page([k \in DOMAIN items |-> LegacyEntry(items[k])], has_next)

LazyPage(items, has_next) == Page([k \in DOMAIN items |-> LazyEntry(items[k])], has_next)

\* legacy shows, entry by entry, the films that current shows
EquivalentPages(legacy, current) ==
    /\ legacy.has_next = current.has_next
    /\ Len(legacy.entries) = Len(current.entries)
    /\ \A k \in DOMAIN legacy.entries :
        \E item \in Items :
            legacy.entries[k] = LegacyEntry(item) /\ current.entries[k] = LazyEntry(item)

ParseCalls ==
    {<<LegacyPage(items, has_next), LazyPage(items, has_next)>> : items \in ItemLists, has_next \in BOOLEAN}

InitParse ==
    /\ InitLocals
    /\ is_refreshing = FALSE
    /\ pc = [i \in Invocations |-> "new"]
    /\ scraped = [i \in Invocations |-> <<>>]
    /\ store = {}
    /\ html \in ParseCalls
    /\ parsed = <<>>
    /\ history = HistoryOff

\* films, has_next = _parse_watchlist_page(html): the next call
ParseCall ==
    /\ Len(parsed) < Len(html)
    /\ parsed' = Append(parsed, ParseWatchlistPage(html[Len(parsed) + 1]))
    /\ UNCHANGED <<is_refreshing, refresh_lock, semaphore, sem_waiters, ready, pc, ret, response, page, films, scraped, tasks, enriched, cursor, store, clock, orphans, simul, html, has_next_page, history>>

SpecParse == InitParse /\ [][ParseCall]_vars

\* _parse_watchlist_page called on one document that mixes legacy posters,
\* lazy posters and other widgets, in any order.
MixedEntries == {LegacyEntry(item) : item \in Items} \cup {LazyEntry(item) : item \in Items} \cup {EntryOther}

MixedPages ==
    {Page(entries, more) : entries \in UNION {[1..m -> MixedEntries] : m \in 0..MaxEntries}, more \in BOOLEAN}

InitParseMixed ==
    /\ InitLocals
    /\ is_refreshing = FALSE
    /\ pc = [i \in Invocations |-> "new"]
    /\ scraped = [i \in Invocations |-> <<>>]
    /\ store = {}
    /\ html \in {<<doc>> : doc \in MixedPages}
    /\ parsed = <<>>
    /\ history = HistoryOff

SpecParseMixed == InitParseMixed /\ [][ParseCall]_vars

\* What the event loop and the calls awaited bring about for invocation i:
\* the loop runs a scheduled coroutine and a background task, and every
\* request, sleep and store call awaited returns or raises.
PipelineStep(i) ==
    \/ BackgroundRun(i)
    \/ RunRefreshBegin(i)
    \/ FetchError(i)
    \/ \E body \in SitePages : FetchResponse(i, body)
    \/ SleepDone(i)
    \/ EnrichStep(i)
    \/ RunRefreshPersist(i)
    \/ UpsertDone(i)
    \/ UpsertError(i)
    \/ DeleteDone(i)
    \/ DeleteError(i)
    \/ RunRefreshReturn(i)

\* A fresh install: init_db has created the table, which is empty.
InitLive == Init /\ store = {}

\* The whole program on a loop that keeps running and with calls that end.
SpecLive == InitLive /\ [][Next]_vars /\ \A i \in Invocations : WF_vars(PipelineStep(i))

\* run_refresh called again and again, each time after the run before has
\* returned or while it is in flight, with every call of the pipeline
\* succeeding; a history of the runs is kept.
InitTwice ==
    /\ InitLocals
    /\ is_refreshing = FALSE
    /\ pc = [i \in Invocations |-> "new"]
    /\ scraped = [i \in Invocations |-> <<>>]
    /\ store \in {PriorRows(S) : S \in SUBSET Slugs}
    /\ html = <<>>
    /\ parsed = <<>>
    /\ history = [on |-> TRUE, runs |-> <<>>]

NextTwice ==
    \E i \in Invocations :
        \/ ScheduledRun(i)
        \/ RunRefreshBegin(i)
        \/ \E body \in SitePages : FetchResponse(i, body)
        \/ SleepDone(i)
        \/ EnrichStep(i)
        \/ RunRefreshPersist(i)
        \/ UpsertDone(i)
        \/ DeleteDone(i)
        \/ RunRefreshReturn(i)

SpecTwice == InitTwice /\ [][NextTwice]_vars

\* One enrich_films call that has to wait for permits.  The semaphore is the
\* module's, shared by every call in the process: the call of invocation 1, on
\* any list of up to MaxBatch references, starts either alone or while another
\* call, of invocation 2, has all but two permits: its OtherCallSize searches
\* are in flight and stay unanswered meanwhile.
OtherCallSize == SemaphorePermits - 2

InitSaturate ==
    /\ refresh_lock = FALSE
    /\ sem_waiters = <<>>
    /\ ready = <<>>
    /\ ret = [i \in Invocations |-> "pending"]
    /\ response = [i \in Invocations |-> "none"]
    /\ page = [i \in Invocations |-> 0]
    /\ films = [i \in Invocations |-> <<>>]
    /\ enriched = [i \in Invocations |-> <<>>]
    /\ cursor = [i \in Invocations |-> 0]
    /\ orphans = [i \in Invocations |-> 0]
    /\ simul = {}
    /\ has_next_page = [i \in Invocations |-> None]
    /\ is_refreshing = TRUE
    /\ store = {}
    /\ html = <<>>
    /\ parsed = <<>>
    /\ history = HistoryOff
    /\ \E batch \in Batches(MaxBatch), others \in {0, OtherCallSize} :
            /\ scraped = [i \in Invocations |->
                            IF i = 1 THEN batch
                            ELSE IF i = 2 THEN [k \in 1..others |-> LoadRef(k)]
                            ELSE <<>>]
            /\ tasks = [i \in Invocations |->
                            IF i = 2 THEN [k \in 1..others |-> [NewTask(1) EXCEPT !.pc = "search"]]
                            ELSE <<>>]
            /\ pc = [i \in Invocations |->
                            IF i = 1 THEN "enrich"
                            ELSE IF i = 2 /\ others > 0 THEN "gather"
                            ELSE "new"]
            /\ semaphore = SemaphorePermits - others
            /\ clock = IF others > 0 THEN 1 ELSE 0

\* The call of invocation 1 goes on; each of its requests returns or fails.
SpecSaturate == InitSaturate /\ [][EnrichStep(1)]_vars /\ WF_vars(EnrichStep(1))

(***************************************************************************)
(* Observations the properties below are stated with.                      *)
(***************************************************************************)
\* The requests of one task that are in flight: the search, or those of the
\* detail/provider pair not yet answered.
RequestsOf(t) ==
    CASE t.pc = "search" -> 1
      [] t.pc = "details2" -> 2
      [] t.pc = "details1" -> 1
      [] OTHER -> 0

RECURSIVE SumRequests(_, _)
SumRequests(ts, k) == IF k > Len(ts) THEN 0 ELSE RequestsOf(ts[k]) + SumRequests(ts, k + 1)

RECURSIVE InFlightUpTo(_)
InFlightUpTo(i) == IF i = 0 THEN 0 ELSE SumRequests(tasks[i], 1) + orphans[i] + InFlightUpTo(i - 1)

\* The catalog requests in flight, across every enrich_films call.
InFlight == InFlightUpTo(NumInvocations)

\* The slugs of invocation i's scraped list.
ScrapedSlugs(i) == {scraped[i][k].slug : k \in DOMAIN scraped[i]}

\* enriched[slug], for a slug among the keys
EntityOf(i, slug) == enriched[i][CHOOSE n \in DOMAIN enriched[i] : enriched[i][n].letterboxd_slug = slug]

Statuses(i) == {enriched[i][n].tmdb_status : n \in DOMAIN enriched[i]}

RaisedOutcomes == {"raised:scrape", "raised:enrich", "raised:upsert", "raised:delete"}

(***************************************************************************)
(* Properties.                                                             *)
(***************************************************************************)
\* C1: in every reachable state, whatever the interleaving of scheduled and
\* manual invocations, at most one invocation is inside the pipeline, between
\* its Idle -> Refreshing transition and its release of the flag.
C1_AtMostOneInPipeline == Cardinality({i \in Invocations : InPipeline(i)}) <= 1

\* An invocation is writing to the store and another was turned away meanwhile.
C1_Witness ==
    \E i, j \in Invocations : pc[i] = "upsert" /\ pc[j] = "done" /\ ret[j] = "False"

\* C2, as stated: of two invocations started together while Idle, exactly one
\* returns true and the other returns false.
C2_OneTrueOneFalse ==
    \A p \in simul :
        pc[p[1]] = "done" /\ pc[p[2]] = "done" => {ret[p[1]], ret[p[2]]} = {"True", "False"}

\* C2, amended: of two invocations started together while Idle, the first to
\* run is the only one to enter the pipeline, and it returns true or raises
\* the pipeline's failure; the other never enters it and returns false.
C2_OneRunsOtherSkipped ==
    \A p \in simul :
        /\ pc[p[2]] \in {"ready", "done"}
        /\ pc[p[2]] = "done" => ret[p[2]] = "False"
        /\ pc[p[1]] = "done" => ret[p[1]] \in {"True"} \cup RaisedOutcomes
        /\ pc[p[1]] = "done" /\ pc[p[2]] = "done" /\ ret[p[1]] \notin RaisedOutcomes
              => ret[p[1]] = "True" /\ ret[p[2]] = "False"

\* Two invocations started together have both returned, one true, one false.
C2_Witness == \E p \in simul : ret[p[1]] = "True" /\ ret[p[2]] = "False"

\* C3: when an invocation that made the Idle -> Refreshing transition ends, by
\* returning or by raising at any step, the flag is false afterwards; the flag
\* is never true with no invocation inside the pipeline.
C3_FlagClearedOnExit ==
    /\ [](is_refreshing => \E i \in Invocations : InPipeline(i))
    /\ [][\A i \in Invocations : InPipeline(i) /\ pc'[i] = "done" => ~is_refreshing']_vars

\* One run raised in an upsert, another in the delete, and the state is Idle.
C3_Witness ==
    /\ ~is_refreshing
    /\ \E i, j \in Invocations : ret[i] = "raised:upsert" /\ ret[j] = "raised:delete"

\* C4: a page fetch that fails ends the run at once: the failure reaches the
\* caller, the state is Idle, the store is as it was, and enrich_films was not
\* called (no task was created, the clock was not read); a run that ended so
\* never goes on.
C4_ScrapeFailureAborts ==
    /\ [](\A i \in Invocations :
            ret[i] = "raised:scrape" => pc[i] = "done" /\ tasks[i] = <<>> /\ enriched[i] = <<>>)
    /\ [][\A i \in Invocations :
            pc[i] = "scrape" /\ pc'[i] \notin {"scrape", "sleep", "enrich"} =>
                /\ pc'[i] = "done"
                /\ ret'[i] = "raised:scrape"
                /\ ~is_refreshing'
                /\ store' = store
                /\ tasks' = tasks
                /\ clock' = clock]_vars

\* A scrape failed over a full store, which is untouched.
C4_Witness ==
    /\ store = PriorRows(Slugs)
    /\ ~is_refreshing
    /\ \E i \in Invocations : pc[i] = "done" /\ ret[i] = "raised:scrape"

\* C5: when run_refresh returns after the whole pipeline, the slugs stored are
\* exactly the slugs of the run's scraped list, whatever the store held before.
C5_StoreHoldsScrapedSlugs ==
    /\ [](\A i \in Invocations : pc[i] = "deleted" => StoreSlugs(store) = ScrapedSlugs(i))
    /\ [][\A i \in Invocations :
            pc[i] = "deleted" /\ pc'[i] = "done" =>
                ret'[i] = "True" /\ StoreSlugs(store') = ScrapedSlugs(i)]_vars

\* A run that scraped a and c has reconciled: the store holds a and c, each as
\* this run enriched it.
C5_Witness ==
    \E i \in Invocations :
        /\ pc[i] = "deleted"
        /\ ScrapedSlugs(i) = {SlugA, SlugC}
        /\ store = {Row(enriched[i][n]) : n \in DOMAIN enriched[i]}

\* C6: reconciliation goes by the scraped list: after the delete, every Entity
\* the run enriched as not_found or error is a row of the store.
C6_UnresolvedRowsKept ==
    \A i \in Invocations :
        pc[i] = "deleted" =>
            \A n \in DOMAIN enriched[i] :
                enriched[i][n].tmdb_status \in {"not_found", "error"} => Row(enriched[i][n]) \in store

\* After the delete, the store holds a not_found row and an error row of this run.
C6_Witness ==
    \E i \in Invocations :
        /\ pc[i] = "deleted"
        /\ \E n, m \in DOMAIN enriched[i] :
            /\ enriched[i][n].tmdb_status = "not_found"
            /\ enriched[i][m].tmdb_status = "error"
            /\ {Row(enriched[i][n]), Row(enriched[i][m])} \subseteq store

\* C7: enrich_films never raises: whatever each request's outcome, it returns
\* a mapping whose keys are exactly the slugs of the input list, one Entity a key.
C7_EnrichReturnsEveryKey ==
    \A i \in Invocations :
        /\ ret[i] # "raised:enrich"
        /\ pc[i] = "enriched" =>
            /\ {enriched[i][n].letterboxd_slug : n \in DOMAIN enriched[i]} = ScrapedSlugs(i)
            /\ Len(enriched[i]) = Cardinality(ScrapedSlugs(i))

\* enrich_films returned for three references: one task raised, one search
\* was empty, one film was found.
C7_Witness ==
    \E i \in Invocations :
        /\ pc[i] = "enriched"
        /\ Len(enriched[i]) = MaxBatch
        /\ \E k \in DOMAIN tasks[i] : tasks[i][k].pc = "raised"
        /\ Statuses(i) = {"found", "not_found", "error"}

\* C8, as stated: the status of each reference's Entity follows from that
\* reference's own calls alone: not_found exactly when its search was empty,
\* error when its search failed, found or error when its search hit; so with
\* one empty search and hits for the rest, exactly one Entity is not_found.
C8_StatusFromOwnCalls ==
    \A i \in Invocations :
        pc[i] = "enriched" =>
            /\ \A k \in DOMAIN scraped[i] :
                LET status == EntityOf(i, scraped[i][k].slug).tmdb_status
                    search == tasks[i][k].search
                IN  /\ search = "empty" <=> status = "not_found"
                    /\ search = "failed" => status = "error"
                    /\ search = "hit" => status \in {"found", "error"}
            /\ Cardinality({k \in DOMAIN scraped[i] : tasks[i][k].search = "empty"}) = 1
               /\ (\A k \in DOMAIN scraped[i] : tasks[i][k].search \in {"empty", "hit"})
                    => Cardinality({n \in DOMAIN enriched[i] : enriched[i][n].tmdb_status = "not_found"}) = 1

\* C9, as stated: a reference whose task raised outside the detail/provider
\* fetch has an Entity with status error in the mapping enrich_films returns.
C9_RaisedTaskGivesError ==
    \A i \in Invocations :
        /\ ret[i] # "raised:enrich"
        /\ pc[i] = "enriched" =>
            \A k \in DOMAIN scraped[i] :
                tasks[i][k].pc = "raised" => EntityOf(i, scraped[i][k].slug).tmdb_status = "error"

\* C10, as stated: the catalog requests in flight, each counted, never exceed
\* the semaphore's permits.
C10_InFlightWithinPermits == InFlight <= SemaphorePermits

\* C11: the store never holds two rows with one slug, and an upsert leaves
\* exactly the row of the film upserted under its slug, every other row as it
\* was: whatever the sequence of upserts, a slug's row is that of its latest.
C11_UpsertKeepsLatestRow ==
    /\ [](\A r1, r2 \in store : r1.letterboxd_slug = r2.letterboxd_slug => r1 = r2)
    /\ [][\A i \in Invocations :
            pc[i] = "upsert" /\ cursor'[i] = cursor[i] + 1 =>
                LET film == enriched[i][cursor[i] + 1]
                IN  /\ {r \in store' : r.letterboxd_slug = film.letterboxd_slug} = {Row(film)}
                    /\ {r \in store' : r.letterboxd_slug # film.letterboxd_slug}
                         = {r \in store : r.letterboxd_slug # film.letterboxd_slug}]_vars

\* The second refresh has upserted a as not_found over the row an earlier
\* upsert wrote for a.
C11_Witness ==
    /\ clock = 2
    /\ \E i \in Invocations : pc[i] = "delete" /\ cursor[i] >= 1
    /\ \E r \in store :
        r.letterboxd_slug = SlugA /\ r.tmdb_status = "not_found" /\ r.last_checked = Some(2)
    /\ Cardinality({r \in store : r.letterboxd_slug = SlugA}) = 1

\* C12: scrape_watchlist requests page 1 first; a page with a next-page link
\* is followed, after the delay, by exactly one request, for the following
\* page number; a page without the link ends the fetching; the list returned
\* is the pages' references, concatenated in page order.  (page[i] is the
\* number of the page requested and not yet answered or slept for, 0 when
\* the scrape is not running.)
C12_PagesInOrder ==
    /\ [](\A i \in Invocations :
            /\ pc[i] \in {"scrape", "sleep"} => page[i] \in 1..MaxPages
            /\ pc[i] \notin {"scrape", "sleep"} => page[i] = 0 /\ films[i] = <<>>)
    /\ [][\A i \in Invocations :
            /\ pc[i] = "ready" /\ pc'[i] = "scrape" => page'[i] = 1 /\ films'[i] = <<>>
            /\ pc[i] = "scrape" /\ pc'[i] = "scrape" => page'[i] = page[i] /\ films'[i] = films[i]
            /\ pc[i] = "scrape" /\ pc'[i] = "sleep" =>
                /\ page'[i] = page[i] + 1
                /\ \E body \in SitePages :
                    body.has_next /\ films'[i] = films[i] \o ParseWatchlistPage(body).films
            /\ pc[i] = "sleep" =>
                /\ pc'[i] \in {"sleep", "scrape"}
                /\ page'[i] = page[i]
                /\ films'[i] = films[i]
            /\ pc[i] = "scrape" /\ pc'[i] = "enrich" =>
                \E body \in SitePages :
                    ~body.has_next /\ scraped'[i] = films[i] \o ParseWatchlistPage(body).films]_vars

\* Page 1 listed a and had a next-page link, page 2 listed c and had none:
\* the scrape returned a, then c.
C12_Witness == \E i \in Invocations : pc[i] = "enrich" /\ scraped[i] = <<RefA, RefC>>

\* C13: a page of legacy entries only and the page showing the same slugs and
\* titles in the current markup only parse to the same sequence of references
\* (and the same has_next).
C13_LegacyAndCurrentAgree ==
    Len(parsed) = 2 /\ EquivalentPages(html[1], html[2]) => parsed[1] = parsed[2]

\* Both pages are parsed; they show two films, the second carried by
\* data-target-link alone and untitled, and both parse to a, then c.
C13_Witness ==
    /\ Len(parsed) = 2
    /\ Len(html[2].entries) = 2
    /\ html[2].entries[2].data_item_slug = <<>>
    /\ parsed[1].films = <<RefA, RefC>>
    /\ parsed[2].films = <<RefA, RefC>>

\* C14: POST /refresh answers in its own step, running nothing of the
\* pipeline: with the flag set at the call it answers already_running and no
\* run_refresh is ever started for it; otherwise it answers started and
\* exactly one run_refresh is started for it, in the background.
C14_ManualTriggerAnswersAtOnce ==
    /\ [](\A i \in Invocations :
            /\ response[i] = "already_running" => pc[i] = "rejected" /\ ret[i] = "pending"
            /\ response[i] = "started" => pc[i] \in {"queued", "ready", "done"} \cup PipelinePcs
            /\ Cardinality({n \in DOMAIN ready : ready[n] = i}) <= 1)
    /\ [][\A i \in Invocations :
            /\ response'[i] # response[i] =>
                /\ pc[i] = "new"
                /\ response'[i] = IF is_refreshing THEN "already_running" ELSE "started"
                /\ pc'[i] = IF is_refreshing THEN "rejected" ELSE "queued"
                /\ ready' = ready
                /\ <<is_refreshing', store', tasks', ret'>> = <<is_refreshing, store, tasks, ret>>
                /\ \A j \in Invocations \ {i} : pc'[j] = pc[j]
            /\ pc[i] = "queued" /\ pc'[i] # "queued" => pc'[i] = "ready" /\ ready' = Append(ready, i)
            /\ pc[i] = "rejected" => pc'[i] = "rejected"]_vars

\* One trigger was answered started and its run is in the pipeline; another,
\* arriving meanwhile, was answered already_running.
C14_Witness ==
    \E i, j \in Invocations :
        response[i] = "already_running" /\ response[j] = "started" /\ InPipeline(j)

\* C15, as stated: the list scrape_watchlist returns holds no slug twice.
C15_NoSlugTwice ==
    \A i \in Invocations :
        \A k, n \in DOMAIN scraped[i] : scraped[i][k].slug = scraped[i][n].slug => k = n

\* C16: every Film a task returns, every Film of the mapping enrich_films
\* returns and every row of the store with status found has its tmdb_id set.
C16_FoundHasCatalogId ==
    /\ \A r \in store : r.tmdb_status = "found" => r.tmdb_id # None
    /\ \A i \in Invocations :
        /\ \A n \in DOMAIN enriched[i] :
            enriched[i][n].tmdb_status = "found" => enriched[i][n].tmdb_id # None
        /\ \A k \in DOMAIN tasks[i] :
            tasks[i][k].film # None /\ tasks[i][k].film[1].tmdb_status = "found"
                => tasks[i][k].film[1].tmdb_id = tasks[i][k].tmdb_id /\ tasks[i][k].tmdb_id # None

\* A refresh has persisted a film it found: the row written at time 1 has its id.
C16_Witness ==
    /\ \E i \in Invocations : pc[i] = "deleted" /\ "found" \in Statuses(i)
    /\ \E r \in store : r.tmdb_status = "found" /\ r.last_checked = Some(1) /\ r.tmdb_id = Some(3)

\* The metadata of a Film is empty: no year, poster, genres, platforms, watch link.
EmptyMetadata(film) ==
    /\ film.year = None
    /\ film.poster_url = None
    /\ film.genres = <<>>
    /\ film.streaming_platforms = <<>>
    /\ film.watch_link = None

\* C17: a task whose search returned no results has ended, in that very step,
\* with a Film of status not_found, no tmdb_id, empty metadata and
\* last_checked the time read at the start of the enrichment; it has no
\* request in flight and get_movie_details never ran for it.
C17_EmptySearchGivesNotFound ==
    \A i \in Invocations : \A k \in DOMAIN tasks[i] :
        LET t == tasks[i][k]
        IN  t.search = "empty" =>
                /\ t.pc = "done"
                /\ t.details = "pending"
                /\ t.tmdb_id = None
                /\ RequestsOf(t) = 0
                /\ t.film # None
                /\ t.film[1].letterboxd_slug = scraped[i][k].slug
                /\ t.film[1].title = scraped[i][k].title
                /\ t.film[1].tmdb_status = "not_found"
                /\ t.film[1].tmdb_id = None
                /\ EmptyMetadata(t.film[1])
                /\ t.film[1].last_checked = Some(t.now)
                /\ t.now = clock

\* The search for c came back empty while the pair of requests for a is in flight.
C17_Witness ==
    \E i \in Invocations : \E k, n \in DOMAIN tasks[i] :
        /\ tasks[i][k].search = "empty"
        /\ scraped[i][k] = RefC
        /\ tasks[i][n].pc = "details2"

\* C18: a task whose search returned an id and whose detail or provider fetch
\* failed has ended with a Film of status error, tmdb_id the id found, and
\* empty metadata.
C18_FailedDetailsGiveError ==
    \A i \in Invocations : \A k \in DOMAIN tasks[i] :
        LET t == tasks[i][k]
        IN  t.details = "failed" =>
                /\ t.search = "hit"
                /\ t.pc = "done"
                /\ t.tmdb_id = Some(CatalogId(scraped[i][k].title))
                /\ t.film # None
                /\ t.film[1].letterboxd_slug = scraped[i][k].slug
                /\ t.film[1].tmdb_status = "error"
                /\ t.film[1].tmdb_id = t.tmdb_id
                /\ EmptyMetadata(t.film[1])

\* Of two tasks with an id, one failed at once (its other request still in
\* flight), one after its first response.
C18_Witness ==
    \E i \in Invocations : \E k, n \in DOMAIN tasks[i] :
        /\ k # n
        /\ tasks[i][k].details = "failed"
        /\ tasks[i][n].details = "failed"
        /\ orphans[i] = 1
        /\ tasks[i][k].film[1].tmdb_id = Some(1)

\* C19: when both fetches succeed and the provider response has no entry for
\* the region asked for, the Film is found, with no platforms and no watch
\* link, and with the poster URL built from the detail response.
C19_AbsentRegionIsFound ==
    \A i \in Invocations : \A k \in DOMAIN tasks[i] :
        LET t == tasks[i][k]
        IN  t.details = "ok" /\ Country \notin DOMAIN CatalogProviders(t.tmdb_id[1]).results =>
                /\ t.pc = "done"
                /\ t.film[1].tmdb_status = "found"
                /\ t.film[1].streaming_platforms = <<>>
                /\ t.film[1].watch_link = None
                /\ t.film[1].poster_url = PosterUrl(CatalogMovie(t.tmdb_id[1]))
                /\ CatalogMovie(t.tmdb_id[1]).poster_path # None => t.film[1].poster_url # None

\* c is found: its detail response has a poster, its provider response lists
\* another region only.
C19_Witness ==
    \E i \in Invocations : \E k \in DOMAIN tasks[i] :
        /\ scraped[i][k] = RefC
        /\ tasks[i][k].details = "ok"
        /\ Country \notin DOMAIN CatalogProviders(3).results
        /\ DOMAIN CatalogProviders(3).results # {}
        /\ tasks[i][k].film[1].poster_url = Some(<<TMDB_IMAGE_BASE, "/w300", "/c.jpg">>)

\* C20: a slug leaves the store only in the step in which the delete of line
\* 48 commits, in a run that scraped, enriched and upserted; the slugs that
\* leave are not in that run's scraped list; a step that ends a run skipped
\* or failed removes none.
C20_RowsLeaveOnlyByReconcile ==
    [][/\ StoreSlugs(store) \ StoreSlugs(store') # {} =>
            \E i \in Invocations :
                /\ pc[i] = "delete" /\ pc'[i] = "deleted"
                /\ cursor[i] = Len(enriched[i])
                /\ (StoreSlugs(store) \ StoreSlugs(store')) \cap ScrapedSlugs(i) = {}
       /\ \A i \in Invocations :
            pc[i] # "done" /\ pc'[i] = "done" => StoreSlugs(store) \subseteq StoreSlugs(store')]_vars

\* A run upserted and then failed in the delete, another was skipped
\* meanwhile: the row of b, which no page lists, is still stored.
C20_Witness ==
    /\ \E i, j \in Invocations : ret[i] = "raised:delete" /\ ret[j] = "False"
    /\ SlugB \in StoreSlugs(store)
    /\ \E r \in store : r.last_checked = Some(1)

\* C21: the system stays schedulable after a failure.  A run_refresh that
\* starts while no run is active, after another raised at whatever step,
\* makes the Idle -> Refreshing transition; every run that made it ends, with
\* true or a failure, provided every call returns or raises; and Refreshing
\* always leads to Idle.
C21_SchedulableAfterFailure ==
    /\ [][\A i \in Invocations :
            /\ pc[i] = "ready" /\ pc'[i] # "ready"
            /\ \A j \in Invocations : ~InPipeline(j)
            /\ \E j \in Invocations : ret[j] \in RaisedOutcomes
            => pc'[i] = "scrape" /\ is_refreshing']_vars
    /\ \A i \in Invocations : InPipeline(i) ~> (pc[i] = "done" /\ ret[i] \in {"True"} \cup RaisedOutcomes)
    /\ is_refreshing ~> ~is_refreshing

\* A run raised in the delete; the next one ran the whole pipeline after it.
C21_Witness ==
    /\ ~is_refreshing
    /\ \E i, j \in Invocations : i < j /\ ret[i] = "raised:delete" /\ ret[j] = "True"

\* The keys of invocation i's enriched dict.
EnrichedSlugs(i) == {enriched[i][n].letterboxd_slug : n \in DOMAIN enriched[i]}

\* C22: within one run_refresh the stages are strictly ordered.  Tasks exist
\* only once scrape_watchlist has returned (its last page had no next link),
\* one for each reference; upserts happen only once enrich_films has returned
\* an Entity for every reference; the delete is called, and has run, only with
\* every produced Entity upserted.
C22_StagesInOrder ==
    \A i \in Invocations :
        /\ tasks[i] # <<>> =>
                /\ pc[i] \in {"gather", "enriched"}
                /\ page[i] = 0 /\ films[i] = <<>>
                /\ Len(tasks[i]) = Len(scraped[i])
        /\ pc[i] = "gather" => enriched[i] = <<>>
        /\ pc[i] = "upsert" \/ cursor[i] > 0 =>
                /\ pc[i] \in {"upsert", "delete", "deleted"}
                /\ tasks[i] = <<>>
                /\ EnrichedSlugs(i) = ScrapedSlugs(i)
        /\ pc[i] \in {"delete", "deleted"} =>
                /\ cursor[i] = Len(enriched[i])
                /\ \A n \in DOMAIN enriched[i] : Row(enriched[i][n]) \in store

\* A run that scraped a and c over two pages has upserted both and deleted.
C22_Witness ==
    \E i \in Invocations :
        /\ pc[i] = "deleted"
        /\ ScrapedSlugs(i) = {SlugA, SlugC}
        /\ cursor[i] = 2

\* C23: an invocation that finds a refresh in flight returns false in the
\* step in which it runs, while the active run is still in the pipeline, and
\* with no effect: no page fetch, no enrichment, no upsert, no delete, the
\* flag still true, the active run where it was; it does nothing afterwards.
C23_SkippedRunHasNoEffect ==
    /\ [](\A i \in Invocations :
            ret[i] = "False" =>
                /\ pc[i] = "done"
                /\ page[i] = 0 /\ films[i] = <<>> /\ scraped[i] = <<>>
                /\ tasks[i] = <<>> /\ enriched[i] = <<>> /\ cursor[i] = 0)
    /\ [][\A i \in Invocations :
            ret[i] = "pending" /\ ret'[i] = "False" =>
                /\ pc[i] = "ready" /\ pc'[i] = "done"
                /\ \E j \in Invocations \ {i} : InPipeline(j) /\ pc'[j] = pc[j]
                /\ is_refreshing /\ is_refreshing'
                /\ UNCHANGED <<refresh_lock, semaphore, sem_waiters, page, films, scraped, tasks, enriched, cursor, store, clock, orphans>>]_vars

\* An invocation has returned false and the active run is still enriching.
C23_Witness ==
    \E i, j \in Invocations :
        /\ ret[i] = "False"
        /\ pc[j] = "gather"
        /\ is_refreshing

\* C24: during a scrape at most one page request is in flight.  The page
\* number goes up only in the step in which the response for the current page
\* arrives and parses to a page with a next link; the request for the next
\* page goes out only after that step and the sleep, for the page counted.
C24_OnePageInFlight ==
    /\ [](Cardinality({i \in Invocations : pc[i] = "scrape"}) <= 1)
    /\ [](\A i \in Invocations :
            pc[i] = "sleep" \/ (pc[i] = "scrape" /\ page[i] > 1) => has_next_page[i] = Some(TRUE))
    /\ [][\A i \in Invocations :
            page[i] >= 1 /\ page'[i] = page[i] + 1 =>
                /\ pc[i] = "scrape" /\ pc'[i] = "sleep"
                /\ has_next_page'[i] = Some(TRUE)
                /\ \E body \in SitePages :
                        /\ ParseWatchlistPage(body).has_next
                        /\ films'[i] = films[i] \o ParseWatchlistPage(body).films]_vars
    /\ [][\A i \in Invocations :
            pc[i] # "scrape" /\ pc'[i] = "scrape" =>
                \/ pc[i] = "ready" /\ page'[i] = 1 /\ films'[i] = <<>>
                \/ pc[i] = "sleep" /\ page'[i] = page[i] /\ page[i] > 1]_vars

\* The request for page 2 is in flight; page 1 listed a film.
C24_Witness ==
    \E i \in Invocations : pc[i] = "scrape" /\ page[i] = 2 /\ films[i] # <<>>

IsLegacy(e) == e.kind = "legacy"

IsLazy(e) == e.kind = "lazy"

\* The slug an entry resolves to under the strategy for its markup, "" when
\* it resolves to none.
ResolvedSlug(e) ==
    CASE IsLegacy(e) -> LegacySlug(e)
      [] IsLazy(e) -> LazySlug(e)
      [] OTHER -> <<>>

ResolvedTitle(e) ==
    CASE IsLegacy(e) -> LegacyTitle(e, LegacySlug(e))
      [] IsLazy(e) -> LazyTitle(e, LazySlug(e))
      [] OTHER -> <<>>

\* The entries of a document in the order the two strategies come upon them:
\* the legacy posters in document order, then the lazy posters.
Discovery(doc) == SelectSeq(doc.entries, IsLegacy) \o SelectSeq(doc.entries, IsLazy)

\* Where the strategies first come upon slug.
FirstSeen(doc, slug) ==
    CHOOSE n \in DOMAIN Discovery(doc) :
        /\ ResolvedSlug(Discovery(doc)[n]) = slug
        /\ \A m \in 1..(n - 1) : ResolvedSlug(Discovery(doc)[m]) # slug

\* C25: parsing one page applies the legacy strategy, then the current one,
\* and merges.  The call returns (no error); each slug appears once in its
\* output; the output's slugs are those some entry resolves to, entries that
\* resolve to none being dropped; each film carries the title of the entry
\* first come upon for its slug; the films stand in the order in which their
\* slugs were first come upon.
C25_ParseMergesBothStrategies ==
    Len(parsed) = 1 =>
        LET doc == html[1]
            out == parsed[1].films
            found == {ResolvedSlug(Discovery(doc)[n]) : n \in DOMAIN Discovery(doc)} \ {<<>>}
        IN  /\ parsed[1].has_next = doc.has_next
            /\ \A k, l \in DOMAIN out : out[k].slug = out[l].slug => k = l
            /\ {out[k].slug : k \in DOMAIN out} = found
            /\ \A k \in DOMAIN out :
                    out[k].title = ResolvedTitle(Discovery(doc)[FirstSeen(doc, out[k].slug)])
            /\ \A k, l \in DOMAIN out :
                    k < l => FirstSeen(doc, out[k].slug) < FirstSeen(doc, out[l].slug)

\* A lazy poster for a without a title stands before a legacy poster for a
\* titled "A", and the film comes out once, titled "A".
C25_Witness ==
    /\ Len(parsed) = 1
    /\ Len(html) = 1
    /\ Len(html[1].entries) = 2
    /\ IsLazy(html[1].entries[1]) /\ LazySlug(html[1].entries[1]) = SlugA
    /\ LazyTitle(html[1].entries[1], SlugA) = SlugA
    /\ IsLegacy(html[1].entries[2])
    /\ parsed[1].films = <<ScrapedFilm(SlugA, TitleA)>>

\* The positions of a task inside get_movie_details.
DetailsPcs == {"wait_details", "details2", "details1"}

\* C26: a reference's detail and provider requests are issued only after its
\* search has returned an id, for that id, and together: the two are in
\* flight at once before either is answered.  Tasks of different references
\* do not wait for each other: a task waits only for a permit, with none free.
C26_PairAfterSearchTasksConcurrent ==
    /\ [](\A i \in Invocations : \A k \in DOMAIN tasks[i] :
            LET t == tasks[i][k]
            IN  /\ t.pc \in DetailsPcs \/ t.details # "pending" =>
                        t.search = "hit" /\ t.tmdb_id = Some(CatalogId(scraped[i][k].title))
                /\ t.pc \in {"wait_search", "wait_details"} => semaphore = 0)
    /\ [][\A i \in Invocations : \A k \in DOMAIN tasks[i] \cap DOMAIN tasks'[i] :
            LET t == tasks[i][k]
                u == tasks'[i][k]
            IN  /\ RequestsOf(u) > 0 /\ t.pc \notin {"details2", "details1"} /\ u.pc \in {"details2", "details1"} =>
                        u.pc = "details2" /\ RequestsOf(u) = 2 /\ u.search = "hit" /\ t.pc \in {"search", "wait_details"}
                /\ u.pc = "details1" /\ t.pc # "details1" => t.pc = "details2"]_vars

\* Two references have their detail and provider requests in flight at once,
\* four requests, none answered.
C26_Witness ==
    \E i \in Invocations : \E k, l \in DOMAIN tasks[i] :
        /\ k # l
        /\ tasks[i][k].pc = "details2"
        /\ tasks[i][l].pc = "details2"
        /\ scraped[i][k] # scraped[i][l]

\* A film or a row with its time of checking blanked.
Timeless(r) == [r EXCEPT !.last_checked = None]

\* C27: refresh is idempotent.  When two runs in succession found the same
\* pages (the same reference list) and the same catalog responses (the same
\* Entities but for the time they were built at), the store after the second
\* holds one row for each slug it held after the first, with the same values
\* but for last_checked.
C27_RefreshIdempotent ==
    Len(history.runs) = 2 =>
        LET first == history.runs[1]
            second == history.runs[2]
        IN  /\ first.scraped = second.scraped
            /\ [n \in DOMAIN first.enriched |-> Timeless(first.enriched[n])]
                    = [n \in DOMAIN second.enriched |-> Timeless(second.enriched[n])]
            => /\ StoreSlugs(second.store) = StoreSlugs(first.store)
               /\ Cardinality(second.store) = Cardinality(StoreSlugs(second.store))
               /\ {Timeless(r) : r \in second.store} = {Timeless(r) : r \in first.store}

\* Two runs found a and c, a found with its genres and c not found, both
\* times; the rows of the second run carry a later time than the first's.
C27_Witness ==
    /\ Len(history.runs) = 2
    /\ history.runs[1].scraped = history.runs[2].scraped
    /\ {history.runs[1].scraped[k].slug : k \in DOMAIN history.runs[1].scraped} = {SlugA, SlugC}
    /\ [n \in DOMAIN history.runs[1].enriched |-> Timeless(history.runs[1].enriched[n])]
            = [n \in DOMAIN history.runs[2].enriched |-> Timeless(history.runs[2].enriched[n])]
    /\ \E n \in DOMAIN history.runs[1].enriched :
            history.runs[1].enriched[n].tmdb_status = "found" /\ history.runs[1].enriched[n].genres # <<>>
    /\ history.runs[1].store # history.runs[2].store

\* C28: the exposed flag is exact.  In every reachable state
\* get_refresh_state() is true exactly when some invocation has made the
\* Idle -> Refreshing transition and has not finished; so it is false at the
\* start and while runs are only queued, skipped or over.
C28_FlagExact == GetRefreshState <=> \E i \in Invocations : InPipeline(i)

\* A run has returned True and the next is in the pipeline, its delete done:
\* the flag has been true, false and is true again.
C28_Witness ==
    \E i, j \in Invocations :
        /\ ret[i] = "True"
        /\ pc[j] = "deleted"
        /\ GetRefreshState

\* C29: every manual trigger that answered started has its background
\* run_refresh execute the pipeline: none returns false, skipped.
C29_StartedTriggerRuns ==
    \A i \in Invocations : response[i] = "started" /\ pc[i] = "done" => ret[i] # "False"

\* The tasks of invocation i that hold a permit: inside `async with
\* _semaphore`, with a request or a pair of requests in flight.
Holders(i) == {k \in DOMAIN tasks[i] : tasks[i][k].pc \in {"search", "details2", "details1"}}

Waiters(i) == {k \in DOMAIN tasks[i] : tasks[i][k].pc \in {"wait_search", "wait_details"}}

RECURSIVE HoldersUpTo(_)
HoldersUpTo(i) == IF i = 0 THEN 0 ELSE Cardinality(Holders(i)) + HoldersUpTo(i - 1)

\* C30: the semaphore neither leaks nor deadlocks.  The permits out are
\* those of the tasks with a request or a pair in flight; a task waits only
\* with no permit free, and stands in the queue of waiters; the call, on a
\* list of any size and with too few permits for its tasks, returns, provided
\* each of its requests returns or fails; when it has returned its tasks hold
\* and await no permit: every permit is free but those of requests of other
\* calls still in flight, all 10 when there are none.
C30_NoLeakNoDeadlock ==
    /\ [](semaphore + HoldersUpTo(NumInvocations) = SemaphorePermits)
    /\ [](\A i \in Invocations : \A k \in Holders(i) : RequestsOf(tasks[i][k]) > 0)
    /\ [](\A i \in Invocations : \A k \in Waiters(i) :
            semaphore = 0 /\ \E n \in DOMAIN sem_waiters : sem_waiters[n] = <<i, k>>)
    /\ [](Len(sem_waiters) = Cardinality(UNION {{<<i, k>> : k \in Waiters(i)} : i \in Invocations}))
    /\ [](pc[1] = "enriched" =>
            /\ Holders(1) = {} /\ Waiters(1) = {} /\ sem_waiters = <<>>
            /\ semaphore = SemaphorePermits - Cardinality(Holders(2))
            /\ tasks[2] = <<>> => semaphore = SemaphorePermits)
    /\ pc[1] = "enrich" ~> pc[1] = "enriched"

\* Three tasks shared the two permits another call had left, so that one
\* had to wait; the call has returned with a film for each, one of them found,
\* and the two permits are free again.
C30_Witness ==
    /\ pc[1] = "enriched"
    /\ Len(enriched[1]) = 3
    /\ Cardinality(Holders(2)) = OtherCallSize
    /\ semaphore = SemaphorePermits - OtherCallSize
    /\ \E n \in DOMAIN enriched[1] : enriched[1][n].tmdb_status = "found"

====
